---- MODULE Spec2Model ----
(***************************************************************************)
(* Model of logatec.py: the NodePair class (constructor, measure,          *)
(* get_channel_gain) together with the two remote nodes it drives and the  *)
(* coordinator clock.  Optional values (Python None) are sequences of      *)
(* length at most one: <<>> is None, <<x>> is the value x.                 *)
(***************************************************************************)
EXTENDS Integers, Sequences, FiniteSets, TLC

\* ------------------------------------------------------------------ bounds
MaxClock == 34      \* the coordinator clock is followed up to this time
MaxCalls == 2       \* calls of measure / get_channel_gain made by the caller
MaxSamples == 2     \* sample records a sensing program reports
MaxIdle == 2        \* time the caller lets pass between two calls
TimeoutFactor == 3  \* the "small multiple" of the sensing duration of a bounded wait

\* ------------------------------------------------------- program constants
TxLead == 1         \* SignalGeneratorProgram(tx_config, now + 1, 14)
TxDuration == 14
RxLead == 3         \* SpectrumSensorProgram(sweep_config, now + 3, 10, 1)
RxDuration == 10
RxSlot == 1
SweepStep == 400    \* get_sweep_config(f_hz, f_hz, 400e3), in kHz
PollInterval == 2   \* time.sleep(2)
MaxSkew == 1        \* "Start times may differ +/- 1 second"

\* ------------------------------------------------------------ input sets
Frequencies == {2425}                \* f_hz, in MHz
Powers == {0, 10}                    \* ptx_dbm
DbLevels == {0, 10}                  \* power readings of the sensing node, dBm
Skews == (0 - MaxSkew)..MaxSkew

None == <<>>
Some(x) == <<x>>
Val(o) == o[1]

\* A sample record of the sensing node: <<power in dBm, frequency>>.
Records(f) == {<<d, f>> : d \in DbLevels}
SeqsUpTo(S, n) == UNION {[1..k -> S] : k \in 1..n}

VARIABLES
    pc,             \* position of the single thread of control
    clock,          \* coordinator time, time.time()
    idle,           \* time passed since the caller's last call ended
    txSkew, rxSkew, \* how late each node's clock runs against the coordinator
    rxResponsive,   \* whether the receiving node reports finished programs
    txHardware,     \* (f, p) pairs the transmitting node's hardware supports
    rxHardware,     \* frequencies the receiving node's hardware can sweep
    generator_cl,   \* self.generator_cl  (None before construction)
    sensor_cl,      \* self.sensor_cl
    txQueries,      \* get_config_list requests received by the tx node
    rxQueries,      \* get_config_list requests received by the rx node
    txLookups,      \* get_tx_config lookups in the cached tx catalog
    txPrograms,     \* programs received by the transmitting node, in order
    rxPrograms,     \* programs received by the receiving node, in order
    op,             \* the caller's call: "none", "measure" or "gain"
    phase,          \* inside get_channel_gain: "noise" or "signal"
    g_f, g_p,       \* arguments of get_channel_gain
    f_hz, ptx_dbm,  \* arguments of measure
    now,            \* measure's local now
    generator_p,    \* measure's local generator_p: index into txPrograms, 0 = unset
    sensor_p,       \* measure's local sensor_p: index into rxPrograms, 0 = unset
    retrieves,      \* retrieve calls made by the current measure call
    polls,          \* is_complete polls made by the current measure call
    waited,         \* time slept by the current measure call
    ret,            \* value returned by the last completed measure
    pnoise_dbm,     \* get_channel_gain's local pnoise_dbm
    outcome,        \* what the last call gave its caller
    submitted,      \* programs submitted since the caller's call began
    calls,          \* calls made so far
    reported,       \* record lists the rx node gave to retrieve in this call
    completed,      \* measure calls that have returned
    completedTx     \* measure calls with a power given that have returned

vars == <<pc, clock, idle, txSkew, rxSkew, rxResponsive, txHardware,
          rxHardware, generator_cl, sensor_cl, txQueries, rxQueries, txLookups, txPrograms, rxPrograms,
          op, phase, g_f, g_p, f_hz, ptx_dbm, now, generator_p, sensor_p, polls,
          waited, retrieves, ret, pnoise_dbm, outcome, submitted, calls,
          reported, completed, completedTx>>

nodeVars == <<txSkew, rxSkew, rxResponsive, txHardware, rxHardware>>
cacheVars == <<generator_cl, sensor_cl, txQueries, rxQueries>>
locals == <<now, generator_p, sensor_p, polls, waited, retrieves>>
history == <<reported, completed, completedTx>>

\* What a call gave its caller: the kind of result, the call (op, phase,
\* f, p) that produced it, the statement it left from, and the value.
NoOutcome ==
    [kind |-> "none", op |-> "none", phase |-> "none", f |-> <<>>, p |-> <<>>,
     at |-> "none", value |-> <<>>]

Init ==
    /\ pc = "new"
    /\ clock = 0
    /\ idle = 0
    /\ txSkew \in Skews
    /\ rxSkew \in Skews
    /\ rxResponsive \in BOOLEAN
    /\ txHardware \in SUBSET (Frequencies \X Powers)
    /\ rxHardware \in SUBSET Frequencies
    /\ generator_cl = None
    /\ sensor_cl = None
    /\ txQueries = 0
    /\ rxQueries = 0
    /\ txLookups = 0
    /\ txPrograms = <<>>
    /\ rxPrograms = <<>>
    /\ op = "none"
    /\ phase = "none"
    /\ g_f = None
    /\ g_p = None
    /\ f_hz = None
    /\ ptx_dbm = None
    /\ now = 0
    /\ generator_p = 0
    /\ sensor_p = 0
    /\ retrieves = 0
    /\ polls = 0
    /\ waited = 0
    /\ ret = <<>>
    /\ pnoise_dbm = <<>>
    /\ outcome = NoOutcome
    /\ submitted = 0
    /\ calls = 0
    /\ reported = <<>>
    /\ completed = 0
    /\ completedTx = 0

\* NodePair.__init__: one get_config_list query to each node, cached.
Construct ==
    /\ pc = "new"
    /\ generator_cl' = Some(txHardware)
    /\ txQueries' = txQueries + 1
    /\ sensor_cl' = Some(rxHardware)
    /\ rxQueries' = rxQueries + 1
    /\ pc' = "idle"
    /\ UNCHANGED <<clock, idle, nodeVars, history, txLookups, txPrograms, rxPrograms,
                   op, phase, g_f, g_p, f_hz, ptx_dbm, locals, ret,
                   pnoise_dbm, outcome, submitted, calls>>

\* ConfigList.get_tx_config(f_hz, power_dbm) on the cached catalog: the
\* configuration for the pair when the hardware supports it, else None.
get_tx_config(cl, f, p) ==
    IF p # None /\ <<f, Val(p)>> \in cl
    THEN Some([f_hz |-> f, power_dbm |-> Val(p)])
    ELSE None

\* ConfigList.get_sweep_config(start_hz, stop_hz, step_hz) on the cached catalog.
get_sweep_config(cl, start, stop, step) ==
    IF start \in cl /\ stop \in cl
    THEN Some([start_hz |-> start, stop_hz |-> stop, step_hz |-> step])
    ELSE None

\* A transmit program scheduled like the sensing program: no margin.
SignalGeneratorProgramNoMargin(cfg, start, duration) ==
    [config |-> cfg, time_start |-> start + (RxLead - TxLead),
     time_duration |-> RxDuration]

\* A transmit program that starts one skew later than asked.
SignalGeneratorProgramLate(cfg, start, duration) ==
    [config |-> cfg, time_start |-> start + MaxSkew,
     time_duration |-> duration]

\* SignalGeneratorProgram(tx_config, time_start, time_duration)
SignalGeneratorProgram(cfg, start, duration) ==
    [config |-> cfg, time_start |-> start, time_duration |-> duration]

\* SpectrumSensorProgram(sweep_config, time_start, time_duration, slot_id),
\* with the node's record of it: reported complete, times retrieved.
SpectrumSensorProgram(cfg, start, duration, slot) ==
    [config |-> cfg, time_start |-> start, time_duration |-> duration,
     slot_id |-> slot, complete |-> FALSE, retrieved |-> 0]

\* The state of a call that has just begun.
FreshCall ==
    /\ calls' = calls + 1
    /\ idle' = 0
    /\ submitted' = 0
    /\ outcome' = NoOutcome
    /\ now' = 0
    /\ generator_p' = 0
    /\ sensor_p' = 0
    /\ polls' = 0
    /\ waited' = 0
    /\ retrieves' = 0
    /\ ret' = <<>>
    /\ pnoise_dbm' = <<>>
    /\ reported' = <<>>
    /\ UNCHANGED <<completed, completedTx>>
    /\ pc' = "m_now"

\* The caller (any user of the class) calls measure(f, p).
CallMeasure ==
    /\ pc = "idle"
    /\ calls < MaxCalls
    /\ \E f \in Frequencies, p \in {None} \cup {Some(x) : x \in Powers} :
          /\ f_hz' = Some(f)
          /\ ptx_dbm' = p
    /\ op' = "measure"
    /\ phase' = "none"
    /\ g_f' = None
    /\ g_p' = None
    /\ FreshCall
    /\ UNCHANGED <<clock, nodeVars, cacheVars, txLookups, txPrograms,
                   rxPrograms>>

\* The caller calls get_channel_gain(f, p) (main, line 164); its first
\* statement is pnoise_dbm = self.measure(f_hz, None), line 104.
CallGetChannelGain ==
    /\ pc = "idle"
    /\ calls < MaxCalls
    /\ \E f \in Frequencies, p \in Powers :
          /\ g_f' = Some(f)
          /\ g_p' = Some(p)
          /\ f_hz' = Some(f)
    /\ ptx_dbm' = None
    /\ op' = "gain"
    /\ phase' = "noise"
    /\ FreshCall
    /\ UNCHANGED <<clock, nodeVars, cacheVars, txLookups, txPrograms,
                   rxPrograms>>

\* Time passes while the caller is between calls.
Wait ==
    /\ pc = "idle"
    /\ clock < MaxClock
    /\ idle < MaxIdle
    /\ clock' = clock + 1
    /\ idle' = idle + 1
    /\ UNCHANGED <<pc, nodeVars, history, cacheVars, txLookups, txPrograms, rxPrograms,
                   op, phase, g_f, g_p, f_hz, ptx_dbm, locals, ret,
                   pnoise_dbm, outcome, submitted, calls>>

Outcome(kind, value) ==
    [kind |-> kind, op |-> op, phase |-> phase, f |-> f_hz, p |-> ptx_dbm,
     at |-> pc, value |-> value]

\* raise Exception("Node can not scan specified frequency range."): neither
\* measure nor get_channel_gain catches it, so it reaches the caller.
Raise ==
    /\ outcome' = Outcome("Exception", <<>>)
    /\ pc' = "idle"
    /\ op' = "none"

\* The test of line 46 left out: the transmitter is always set up.
TransmissionAlways(p) == TRUE

\* Line 46: if ptx_dbm is not None.
TransmissionRequested(p) == p # None

\* measure asking both nodes for their configuration lists again.
MeasureNowRequery ==
    /\ pc = "m_now"
    /\ now' = clock
    /\ generator_p' = 0
    /\ sensor_p' = 0
    /\ polls' = 0
    /\ waited' = 0
    /\ retrieves' = 0
    /\ generator_cl' = Some(txHardware)
    /\ txQueries' = txQueries + 1
    /\ sensor_cl' = Some(rxHardware)
    /\ rxQueries' = rxQueries + 1
    /\ pc' = IF TransmissionRequested(ptx_dbm) THEN "m_tx" ELSE "m_rx"
    /\ UNCHANGED <<clock, idle, nodeVars, history, txLookups, txPrograms, rxPrograms,
                   op, phase, g_f, g_p, f_hz, ptx_dbm, ret, pnoise_dbm,
                   outcome, submitted, calls>>

\* measure, lines 44-46: now = time.time(), and the test of ptx_dbm.
MeasureNow ==
    /\ pc = "m_now"
    /\ now' = clock
    /\ generator_p' = 0
    /\ sensor_p' = 0
    /\ polls' = 0
    /\ waited' = 0
    /\ retrieves' = 0
    /\ pc' = IF TransmissionRequested(ptx_dbm) THEN "m_tx" ELSE "m_rx"
    /\ UNCHANGED <<clock, idle, nodeVars, history, cacheVars, txLookups, txPrograms,
                   rxPrograms, op, phase, g_f, g_p, f_hz, ptx_dbm, ret,
                   pnoise_dbm, outcome, submitted, calls>>

\* The transmitter set up without the test of tx_config: on a miss measure
\* goes on to the receiver with nothing transmitted.
TxSetupIgnoreMiss ==
    /\ pc = "m_tx"
    /\ txLookups' = txLookups + 1
    /\ LET tx_config == get_tx_config(Val(generator_cl), Val(f_hz), ptx_dbm)
       IN  IF tx_config = None
           THEN UNCHANGED <<txPrograms, generator_p, submitted>>
           ELSE /\ txPrograms' = Append(txPrograms,
                       SignalGeneratorProgram(Val(tx_config), now + TxLead,
                                              TxDuration))
                /\ generator_p' = Len(txPrograms) + 1
                /\ submitted' = submitted + 1
    /\ pc' = "m_rx"
    /\ UNCHANGED <<clock, idle, nodeVars, history, cacheVars, rxPrograms, op, phase,
                   g_f, g_p, f_hz, ptx_dbm, now, sensor_p, polls, waited,
                   retrieves, ret, pnoise_dbm, outcome, calls>>

\* measure, lines 46-53: set up the transmitter.
TxSetup ==
    /\ pc = "m_tx"
    /\ txLookups' = txLookups + 1
    /\ LET tx_config == get_tx_config(Val(generator_cl), Val(f_hz), ptx_dbm)
       IN  IF tx_config = None
           THEN /\ Raise
                /\ UNCHANGED <<txPrograms, generator_p, submitted>>
           ELSE /\ txPrograms' = Append(txPrograms,
                       SignalGeneratorProgram(Val(tx_config), now + TxLead,
                                              TxDuration))
                /\ generator_p' = Len(txPrograms) + 1
                /\ submitted' = submitted + 1
                /\ pc' = "m_rx"
                /\ UNCHANGED <<op, outcome>>
    /\ UNCHANGED <<clock, idle, nodeVars, history, cacheVars, rxPrograms, phase, g_f,
                   g_p, f_hz, ptx_dbm, now, sensor_p, polls, waited,
                   retrieves, ret, pnoise_dbm, calls>>

\* The receiver set up with the lead time only when a transmitter has to
\* settle first: a noise-only sensing program starts at once.
RxSetupNoLead ==
    /\ pc = "m_rx"
    /\ LET sweep_config == get_sweep_config(Val(sensor_cl), Val(f_hz),
                                            Val(f_hz), SweepStep)
           lead == IF ptx_dbm # None THEN RxLead ELSE 0
       IN  IF sweep_config = None
           THEN /\ Raise
                /\ UNCHANGED <<rxPrograms, sensor_p, submitted>>
           ELSE /\ rxPrograms' = Append(rxPrograms,
                       SpectrumSensorProgram(Val(sweep_config), now + lead,
                                             RxDuration, RxSlot))
                /\ sensor_p' = Len(rxPrograms) + 1
                /\ submitted' = submitted + 1
                /\ pc' = "m_poll"
                /\ UNCHANGED <<op, outcome>>
    /\ UNCHANGED <<clock, idle, nodeVars, history, cacheVars, txLookups,
                   txPrograms, phase, g_f, g_p, f_hz, ptx_dbm, now,
                   generator_p, polls, waited, retrieves, ret, pnoise_dbm,
                   calls>>

\* measure, lines 59-64: set up the receiver.
RxSetup ==
    /\ pc = "m_rx"
    /\ LET sweep_config == get_sweep_config(Val(sensor_cl), Val(f_hz),
                                            Val(f_hz), SweepStep)
       IN  IF sweep_config = None
           THEN /\ Raise
                /\ UNCHANGED <<rxPrograms, sensor_p, submitted>>
           ELSE /\ rxPrograms' = Append(rxPrograms,
                       SpectrumSensorProgram(Val(sweep_config), now + RxLead,
                                             RxDuration, RxSlot))
                /\ sensor_p' = Len(rxPrograms) + 1
                /\ submitted' = submitted + 1
                /\ pc' = "m_poll"
                /\ UNCHANGED <<op, outcome>>
    /\ UNCHANGED <<clock, idle, nodeVars, history, cacheVars, txLookups, txPrograms,
                   phase, g_f, g_p, f_hz, ptx_dbm, now, generator_p, polls,
                   waited, retrieves, ret, pnoise_dbm, calls>>

\* Lines 66-81: the interval of coordinator time in which a node runs a
\* program, its clock running skew late.
RealStart(prog, skew) == prog.time_start + skew
RealStop(prog, skew) == prog.time_start + prog.time_duration + skew

\* The receiving node has run the program to its end: its own clock, which
\* runs rxSkew late, has passed time_start + time_duration.
NodeFinished(prog) == clock >= RealStop(prog, rxSkew)

\* SpectrumSensor.is_complete(program): the answer of the node.  A node
\* that has not finished the program answers no; an unresponsive node never
\* reports completion.
is_complete(prog) == NodeFinished(prog) /\ rxResponsive

\* The loop of line 83 left without the node having reported completion.
PollCompleteUnchecked ==
    /\ pc = "m_poll"
    /\ polls' = polls + 1
    /\ pc' = "m_retrieve"
    /\ UNCHANGED <<clock, idle, nodeVars, history, cacheVars, txLookups, txPrograms,
                   rxPrograms, op, phase, g_f, g_p, f_hz, ptx_dbm, now,
                   generator_p, sensor_p, waited, retrieves, ret, pnoise_dbm,
                   outcome, submitted, calls>>

\* measure, line 83: a poll that finds the program complete leaves the loop.
PollComplete ==
    /\ pc = "m_poll"
    /\ is_complete(rxPrograms[sensor_p])
    /\ polls' = polls + 1
    /\ rxPrograms' = [rxPrograms EXCEPT ![sensor_p].complete = TRUE]
    /\ pc' = "m_retrieve"
    /\ UNCHANGED <<clock, idle, nodeVars, history, cacheVars, txLookups, txPrograms,
                   op, phase, g_f, g_p, f_hz, ptx_dbm, now, generator_p,
                   sensor_p, waited, retrieves, ret, pnoise_dbm, outcome,
                   submitted, calls>>

\* The loop of lines 83-85 with an overall timeout: once the call has slept
\* TimeoutFactor times the sensing duration it gives up with an error.
PollWaitingTimeout ==
    /\ pc = "m_poll"
    /\ ~is_complete(rxPrograms[sensor_p])
    /\ polls' = polls + 1
    /\ IF waited >= TimeoutFactor * RxDuration
       THEN /\ outcome' = Outcome("Timeout", <<>>)
            /\ pc' = "idle"
            /\ op' = "none"
            /\ UNCHANGED <<clock, waited>>
       ELSE /\ clock + PollInterval <= MaxClock
            /\ clock' = clock + PollInterval
            /\ waited' = waited + PollInterval
            /\ UNCHANGED <<pc, op, outcome>>
    /\ UNCHANGED <<idle, nodeVars, history, cacheVars, txLookups, txPrograms,
                   rxPrograms, phase, g_f, g_p, f_hz, ptx_dbm, now,
                   generator_p, sensor_p, retrieves, ret, pnoise_dbm,
                   submitted, calls>>

\* measure, lines 83-85: a poll that finds it incomplete; print, sleep(2),
\* poll again.
PollWaiting ==
    /\ pc = "m_poll"
    /\ ~is_complete(rxPrograms[sensor_p])
    /\ clock + PollInterval <= MaxClock
    /\ polls' = polls + 1
    /\ clock' = clock + PollInterval
    /\ waited' = waited + PollInterval
    /\ UNCHANGED <<pc, idle, nodeVars, history, cacheVars, txLookups, txPrograms,
                   rxPrograms, op, phase, g_f, g_p, f_hz, ptx_dbm, now,
                   generator_p, sensor_p, retrieves, ret, pnoise_dbm, outcome,
                   submitted, calls>>

\* The power column with the records taken last to first.
FirstColumnReversed(data) ==
    [i \in 1..Len(data) |-> data[Len(data) + 1 - i][1]]

\* np.array(result.get_data())[:,0]: the first column of every record.
FirstColumn(data) == [i \in 1..Len(data) |-> data[i][1]]

\* measure, lines 89-91: retrieve the records and return the power column.
Retrieve ==
    /\ pc = "m_retrieve"
    /\ rxPrograms' = [rxPrograms EXCEPT ![sensor_p].retrieved = @ + 1]
    /\ retrieves' = retrieves + 1
    /\ \E data \in SeqsUpTo(Records(Val(f_hz)), MaxSamples) :
          /\ reported' = Append(reported, data)
          /\ ret' = FirstColumn(data)
    /\ completed' = completed + 1
    /\ completedTx' = completedTx + (IF ptx_dbm # None THEN 1 ELSE 0)
    /\ pc' = "m_return"
    /\ UNCHANGED <<clock, idle, nodeVars, cacheVars, txLookups, txPrograms,
                   op, phase, g_f, g_p, f_hz, ptx_dbm, now, generator_p,
                   sensor_p, polls, waited, pnoise_dbm, outcome, submitted,
                   calls>>

\* measure called directly: its caller receives the series.
MeasureReturn ==
    /\ pc = "m_return"
    /\ op = "measure"
    /\ outcome' = Outcome("samples", ret)
    /\ pc' = "idle"
    /\ op' = "none"
    /\ UNCHANGED <<clock, idle, nodeVars, history, cacheVars, txLookups, txPrograms,
                   rxPrograms, phase, g_f, g_p, f_hz, ptx_dbm, locals, ret,
                   pnoise_dbm, submitted, calls>>

\* get_channel_gain, lines 104-108: the noise measurement has returned;
\* prx_dbm = self.measure(f_hz, ptx_dbm) is called.
GainSignalCall ==
    /\ pc = "m_return"
    /\ op = "gain"
    /\ phase = "noise"
    /\ pnoise_dbm' = ret
    /\ f_hz' = g_f
    /\ ptx_dbm' = g_p
    /\ phase' = "signal"
    /\ pc' = "m_now"
    /\ UNCHANGED <<clock, idle, nodeVars, history, cacheVars, txLookups, txPrograms,
                   rxPrograms, op, g_f, g_p, locals, ret, outcome, submitted,
                   calls>>

RECURSIVE Pow10(_)
Pow10(n) == IF n <= 0 THEN 1 ELSE 10 * Pow10(n - 1)

\* db_to_mw, line 97: 10.**(db/10.), for the whole tens of DbLevels and Powers.
db_to_mw(db) == Pow10(db \div 10)

RECURSIVE SumMw(_)
SumMw(series) ==
    IF series = <<>> THEN 0
    ELSE db_to_mw(Head(series)) + SumMw(Tail(series))

\* np.mean of the linear series, as the fraction <<sum, count>>.
MeanMw(series) == <<SumMw(series), Len(series)>>

\* The gain taken sample by sample: the mean of the differences of paired
\* samples, over the length the two series share.
h_meanSamplewise(prx, pnoise, ptx) ==
    LET n == IF Len(prx) < Len(pnoise) THEN Len(prx) ELSE Len(pnoise)
    IN  [num |-> SumMw(SubSeq(prx, 1, n)) - SumMw(SubSeq(pnoise, 1, n)),
         den |-> n * db_to_mw(ptx)]

\* Line 130: h_mean = (prx_mw_mean - pnoise_mw_mean)/ptx_mw, as a fraction
\* with a positive denominator.
h_mean(prx, pnoise, ptx) ==
    LET r == MeanMw(prx)
        n == MeanMw(pnoise)
    IN  [num |-> r[1] * n[2] - n[1] * r[2],
         den |-> r[2] * n[2] * db_to_mw(ptx)]

\* mw_to_db, line 100: 10.*np.log10(mw).  numpy gives a finite number for a
\* positive argument, -inf for zero and nan for a negative one; the finite
\* value is kept as 10*log10 of the fraction.
mw_to_db(mw) ==
    [class |-> IF mw.num > 0 THEN "finite"
               ELSE IF mw.num = 0 THEN "neg_inf" ELSE "nan",
     of |-> mw]

\* get_channel_gain, lines 108-137: the signal measurement has returned;
\* compute the gain and return it.
GainCompute ==
    /\ pc = "m_return"
    /\ op = "gain"
    /\ phase = "signal"
    /\ outcome' = Outcome("gain", mw_to_db(h_mean(ret, pnoise_dbm, Val(g_p))))
    /\ pc' = "idle"
    /\ op' = "none"
    /\ UNCHANGED <<clock, idle, nodeVars, history, cacheVars, txLookups, txPrograms,
                   rxPrograms, phase, g_f, g_p, f_hz, ptx_dbm, locals, ret,
                   pnoise_dbm, submitted, calls>>

Next ==
    \/ Construct
    \/ CallMeasure
    \/ CallGetChannelGain
    \/ Wait
    \/ MeasureNow
    \/ TxSetup
    \/ RxSetup
    \/ PollComplete
    \/ PollWaiting
    \/ Retrieve
    \/ MeasureReturn
    \/ GainSignalCall
    \/ GainCompute

Spec == Init /\ [][Next]_vars

\* A receiving node that did not report finished programs starts to.
NodeRecover ==
    /\ ~rxResponsive
    /\ rxResponsive' = TRUE
    /\ UNCHANGED <<pc, clock, idle, txSkew, rxSkew, txHardware, rxHardware,
                   cacheVars, history, txLookups, txPrograms, rxPrograms, op,
                   phase, g_f, g_p, f_hz, ptx_dbm, locals, ret, pnoise_dbm,
                   outcome, submitted, calls>>

\* The statements of measure and get_channel_gain: the one thread of
\* control runs on whenever it can.
Running ==
    \/ MeasureNow
    \/ TxSetup
    \/ RxSetup
    \/ PollComplete
    \/ PollWaiting
    \/ Retrieve
    \/ MeasureReturn
    \/ GainSignalCall
    \/ GainCompute

LiveNext ==
    \/ Next
    \/ NodeRecover

\* The construction of main: both nodes support the requested frequency and
\* powers, so that every call gets as far as the poll loop.
LiveInit ==
    /\ Init
    /\ txHardware = Frequencies \X Powers
    /\ rxHardware = Frequencies

\* The program with a receiving node that may be late to report: the thread
\* keeps running, and a node that does not report eventually does.
LiveSpec ==
    /\ LiveInit
    /\ [][LiveNext]_vars
    /\ WF_vars(Running)
    /\ WF_vars(NodeRecover)

\* ------------------------------------------------------------------ claims
MeasurePcs == {"m_now", "m_tx", "m_rx", "m_poll", "m_retrieve", "m_return"}
AfterSetup == {"m_poll", "m_retrieve", "m_return"}

\* C1: once measure(f, p) with p given has submitted both programs, they
\* are tx_start = T0+1, tx_stop = tx_start+14, rx_start = T0+3,
\* rx_stop = rx_start+10, so that tx_start <= rx_start, rx_stop <= tx_stop
\* and rx_duration < tx_duration.
C1_ScheduleNested ==
    (pc \in AfterSetup /\ ptx_dbm # None) =>
        /\ generator_p > 0
        /\ sensor_p > 0
        /\ LET tx == txPrograms[generator_p]
               rx == rxPrograms[sensor_p]
               tx_start == tx.time_start
               tx_stop == tx.time_start + tx.time_duration
               rx_start == rx.time_start
               rx_stop == rx.time_start + rx.time_duration
           IN  /\ tx_start = now + 1
               /\ tx_stop = tx_start + 14
               /\ rx_start = now + 3
               /\ rx_stop = rx_start + 10
               /\ tx_start <= rx_start
               /\ rx_stop <= tx_stop
               /\ rx.time_duration < tx.time_duration

C1_Witness ==
    /\ pc = "m_poll"
    /\ ptx_dbm # None
    /\ generator_p > 0
    /\ sensor_p > 0
    /\ now > 0

\* C2: with each node's clock off by any skew in -1..1, the interval of
\* coordinator time in which the receiver senses lies inside the interval in
\* which the transmitter transmits, for every measure call with a power given.
C2_SensingInsideTransmission ==
    (pc \in AfterSetup /\ ptx_dbm # None) =>
        /\ generator_p > 0
        /\ sensor_p > 0
        /\ RealStart(txPrograms[generator_p], txSkew)
              <= RealStart(rxPrograms[sensor_p], rxSkew)
        /\ RealStop(rxPrograms[sensor_p], rxSkew)
              <= RealStop(txPrograms[generator_p], txSkew)

C2_Witness ==
    /\ pc = "m_retrieve"
    /\ ptx_dbm # None
    /\ txSkew = 1
    /\ rxSkew = -1
    /\ RealStart(txPrograms[generator_p], txSkew)
          = RealStart(rxPrograms[sensor_p], rxSkew)

\* C3: when the sensing configuration lookup returns None, measure fails
\* and no program has been submitted to either node during the call.
C3_NoProgramOnSensingMiss ==
    (outcome.kind = "Exception" /\ outcome.at = "m_rx") => submitted = 0

\* C4: when a power is given and the transmit configuration lookup returns
\* None, measure fails there and then: the exception reaches the caller, no
\* program has gone or goes to either node, nothing is polled or retrieved.
C4_TransmitMissFailsFast ==
    [][(pc = "m_tx"
          /\ get_tx_config(Val(generator_cl), Val(f_hz), ptx_dbm) = None)
       => /\ outcome'.kind = "Exception"
          /\ pc' = "idle"
          /\ UNCHANGED <<txPrograms, rxPrograms>>
          /\ generator_p' = 0
          /\ sensor_p' = 0
          /\ polls' = 0
          /\ retrieves' = 0]_vars

C4_Witness ==
    /\ outcome.kind = "Exception"
    /\ outcome.at = "m_tx"
    /\ outcome.op = "measure"
    /\ outcome.p # None
    /\ pc = "idle"

\* C5: when get_channel_gain(f, p) fails because the transmit catalog has
\* no configuration for (f, p), no program has been submitted to either node
\* during that call.
C5_GainMissBeforeAnyProgram ==
    (outcome.kind = "Exception" /\ outcome.op = "gain" /\ outcome.at = "m_tx")
        => submitted = 0

\* C6: during a measure call with the power absent nothing reaches the
\* transmitting node (no query, no lookup, no program), and the call submits
\* a sensing program only.
C6_NoiseOnlyLeavesTransmitterAlone ==
    [][(pc \in MeasurePcs /\ ptx_dbm = None)
       => /\ UNCHANGED <<txQueries, txLookups, txPrograms>>
          /\ generator_p = 0
          /\ pc \in AfterSetup => sensor_p > 0]_vars

C6_Witness ==
    /\ outcome.kind = "samples"
    /\ outcome.p = None
    /\ Len(rxPrograms) = 1
    /\ txPrograms = <<>>
    /\ txLookups = 0

\* C7: in get_channel_gain the noise measurement runs first and the signal
\* measurement second; a program is submitted only when every earlier
\* sensing program has reported complete and has been retrieved, so the
\* receiving node never holds two incomplete sensing programs.
C7_MeasurementsSequential ==
    /\ Cardinality({i \in DOMAIN rxPrograms : ~rxPrograms[i].complete}) <= 1
    /\ \A i \in 1..(Len(rxPrograms) - 1) :
          rxPrograms[i].complete /\ rxPrograms[i].retrieved = 1
    /\ (op = "gain" /\ phase = "noise") =>
          ptx_dbm = None /\ pnoise_dbm = <<>> /\ submitted <= 1
    /\ (op = "gain" /\ phase = "signal") =>
          /\ ptx_dbm = g_p
          /\ pnoise_dbm # <<>>
          /\ submitted >= 1
          /\ pc \in {"m_now", "m_tx", "m_rx"} =>
                \A i \in DOMAIN rxPrograms :
                    rxPrograms[i].complete /\ rxPrograms[i].retrieved = 1

C7_Witness ==
    /\ op = "gain"
    /\ phase = "signal"
    /\ pc = "m_poll"
    /\ Len(rxPrograms) = 2
    /\ ~rxPrograms[2].complete

\* C8: measure is never still polling once it has waited more than a small
\* multiple of the sensing program's duration.
C8_PollingBounded ==
    pc = "m_poll" => waited <= TimeoutFactor * RxDuration

\* C8, amended: measure has no bounded wait.  It leaves the poll loop only
\* for the retrieval, and only when the node has reported the program
\* complete; while the node does not, it sleeps 2 time units and polls
\* again, without an error reaching the caller.
C8_PollsUntilComplete ==
    [][pc = "m_poll"
       => \/ /\ is_complete(rxPrograms[sensor_p])
             /\ pc' = "m_retrieve"
             /\ rxPrograms'[sensor_p].complete
          \/ /\ ~is_complete(rxPrograms[sensor_p])
             /\ pc' = "m_poll"
             /\ clock' = clock + 2
             /\ polls' = polls + 1
             /\ outcome' = outcome]_vars

C8_Witness ==
    /\ pc = "m_poll"
    /\ ~rxResponsive
    /\ waited > TimeoutFactor * RxDuration
    /\ polls > 15
    /\ outcome.kind = "none"

\* C9: get_channel_gain returns a decibel value only when the mean linear
\* power of the signal series exceeds that of the noise series.
C9_BelowNoiseFloorNotNumeric ==
    outcome.kind = "gain" => outcome.value.of.num > 0

\* C10: once the NodePair is constructed each node has been asked for its
\* configuration list exactly once, whatever calls were made since, and the
\* cached catalogs are those the constructor fetched.
C10_CatalogQueriedOnce ==
    pc # "new" =>
        /\ txQueries = 1
        /\ rxQueries = 1
        /\ generator_cl = Some(txHardware)
        /\ sensor_cl = Some(rxHardware)

C10_Witness ==
    /\ pc = "idle"
    /\ calls = 2
    /\ outcome.kind = "Exception"
    /\ Len(rxPrograms) = 1
    /\ rxPrograms[1].retrieved = 1
    /\ txQueries = 1
    /\ rxQueries = 1

\* The linear power, in mW, of a reading of d dBm (d a whole ten), and the
\* total linear power of the first k records of a list.
LinearPower(d) == IF d = 0 THEN 1 ELSE IF d = 10 THEN 10 ELSE 100
RECURSIVE LinearTotal(_, _)
LinearTotal(records, k) ==
    IF k = 0 THEN 0
    ELSE LinearPower(records[k][1]) + LinearTotal(records, k - 1)

\* C11: the value get_channel_gain returns is the decibel form of
\* (mean linear signal power - mean linear noise power) / linear transmit
\* power, the noise series being what the node reported for the first
\* measurement of the call and the signal series for the second.
C11_GainFromLinearMeans ==
    outcome.kind = "gain" =>
        /\ Len(reported) = 2
        /\ LET noise == reported[1]
               signal == reported[2]
               refNum == LinearTotal(signal, Len(signal)) * Len(noise)
                           - LinearTotal(noise, Len(noise)) * Len(signal)
               refDen == Len(signal) * Len(noise)
                           * LinearPower(Val(outcome.p))
               h == outcome.value.of
           IN  /\ h.den > 0
               /\ h.num * refDen = refNum * h.den
               /\ outcome.value.class =
                     (IF refNum > 0 THEN "finite"
                      ELSE IF refNum = 0 THEN "neg_inf" ELSE "nan")

C11_Witness ==
    /\ outcome.kind = "gain"
    /\ outcome.value.class = "finite"
    /\ outcome.p = Some(10)
    /\ reported[1] = <<<<0, 2425>>, <<10, 2425>>>>
    /\ reported[2] = <<<<10, 2425>>>>

\* C12: in a sequence of get_channel_gain calls (every earlier call has
\* completed its two measurements), whenever the noise-only measurement has
\* submitted its sensing program, every transmit program submitted before
\* has stopped, in coordinator time, by the time the sensing window begins.
C12_TransmitterSilentDuringNoise ==
    (/\ op = "gain"
     /\ phase = "noise"
     /\ pc \in {"m_poll", "m_retrieve"}
     /\ completed = 2 * (calls - 1)) =>
        \A j \in DOMAIN txPrograms :
            RealStop(txPrograms[j], txSkew)
                <= RealStart(rxPrograms[sensor_p], rxSkew)

\* C13: retrieve is called for a sensing program only after an is_complete
\* poll of that program has returned true, and exactly once in a measure
\* call that returns; no program that has not reported completion is
\* ever retrieved.
C13_RetrieveAfterComplete ==
    /\ \A i \in DOMAIN rxPrograms :
          /\ rxPrograms[i].retrieved <= 1
          /\ rxPrograms[i].retrieved = 1 => rxPrograms[i].complete
    /\ pc \in {"m_tx", "m_rx", "m_poll"} => retrieves = 0
    /\ pc = "m_retrieve" =>
          /\ retrieves = 0
          /\ polls >= 1
          /\ rxPrograms[sensor_p].complete
          /\ rxPrograms[sensor_p].retrieved = 0
    /\ pc = "m_return" =>
          /\ retrieves = 1
          /\ rxPrograms[sensor_p].complete
          /\ rxPrograms[sensor_p].retrieved = 1
    /\ outcome.kind \in {"samples", "gain"} =>
          /\ retrieves = 1
          /\ rxPrograms[sensor_p].retrieved = 1

C13_Witness ==
    /\ pc = "m_return"
    /\ polls > 1
    /\ retrieves = 1
    /\ rxPrograms[sensor_p].complete
    /\ rxPrograms[sensor_p].retrieved = 1

\* The sensing program ends early enough for a poll to see it within the
\* time the clock is followed.
WithinHorizon == RealStop(rxPrograms[sensor_p], rxSkew) + 1 <= MaxClock

\* C14: the poll loop has no iteration cap.  When the receiving node
\* eventually reports the sensing program complete, measure eventually
\* retrieves the samples and returns, however many polls that takes; and
\* as long as completion is not reported measure stays in the poll loop.
C14_PollsAsLongAsNeeded ==
    /\ (pc = "m_poll" /\ WithinHorizon) ~> (pc = "m_return" /\ retrieves = 1)
    /\ [][(pc = "m_poll" /\ ~is_complete(rxPrograms[sensor_p]))
            => (pc' = "m_poll" /\ outcome' = outcome)]_vars

C14_Witness ==
    /\ pc = "m_return"
    /\ retrieves = 1
    /\ polls > 12
    /\ waited > TxDuration + RxDuration

\* C15: programs are neither cached nor retried.  A measure call that
\* returns has submitted exactly one sensing program and, with a power
\* given, exactly one transmit program (none with the power absent); so
\* between calls the receiving node has received as many sensing programs
\* as measure calls have returned, and the transmitting node as many
\* transmit programs as measure calls with a power given have returned.
C15_OneProgramPerCompletedCall ==
    /\ pc = "m_return" =>
          /\ sensor_p = Len(rxPrograms)
          /\ ptx_dbm # None => generator_p = Len(txPrograms)
          /\ ptx_dbm = None => generator_p = 0
          /\ Len(rxPrograms) = completed
          /\ Len(txPrograms) = completedTx
    /\ pc = "idle" =>
          /\ Len(rxPrograms) = completed
          /\ Len(txPrograms) = completedTx

\* What measure asked of the receiving node in a sensing program.
Schedule(prog, T0) ==
    [sweep |-> prog.config, lead |-> prog.time_start - T0,
     duration |-> prog.time_duration, fourth |-> prog.slot_id]

\* C16: the sensing program is scheduled in the same way whether or not a
\* power is given: for the sweep (f, f, fixed step) it starts at T0+3, lasts
\* 10 and has 1 as its last argument.
C16_SensingScheduleSame ==
    pc \in AfterSetup =>
        /\ sensor_p = Len(rxPrograms)
        /\ Schedule(rxPrograms[sensor_p], now)
              = [sweep |-> [start_hz |-> Val(f_hz), stop_hz |-> Val(f_hz),
                            step_hz |-> 400],
                 lead |-> 3, duration |-> 10, fourth |-> 1]

C16_Witness ==
    /\ op = "gain"
    /\ phase = "signal"
    /\ pc = "m_poll"
    /\ ptx_dbm # None
    /\ Len(rxPrograms) = 2
    /\ Schedule(rxPrograms[1], 0) = Schedule(rxPrograms[2], now)

\* C17: measure returns the first field of every record the node reported
\* for the sensing program, in the node's order: as many elements as
\* records, the i-th being the first column of the i-th record.
C17_ReturnsPowerColumn ==
    /\ pc = "m_return" =>
          /\ reported # <<>>
          /\ LET records == reported[Len(reported)]
             IN  /\ Len(ret) = Len(records)
                 /\ \A i \in 1..Len(records) : ret[i] = Head(records[i])
    /\ outcome.kind = "samples" =>
          /\ Len(reported) = 1
          /\ Len(outcome.value) = Len(reported[1])
          /\ \A i \in 1..Len(reported[1]) :
                outcome.value[i] = Head(reported[1][i])

C17_Witness ==
    /\ outcome.kind = "samples"
    /\ Len(reported) = 1
    /\ Len(reported[1]) = 2
    /\ outcome.value = <<10, 0>>
====
